---- MODULE Spec2Model ----
\* Verification model of unravelsports' graph conversion and dataset splitting:
\*   CustomSpektralDataset.split_test_train_validation
\*       (src/unravel/utils/objects/custom_spektral_dataset.py)
\*   SoccerGraphConverterPolars
\*       (src/unravel/soccer/graphs/graph_converter_pl.py)
\*
\* Conventions.
\*   * numpy indices are 0-based; the model numbers the graphs 1..n.
\*   * Split proportions are natural-number weights; a percentage w / total is
\*     never formed, int(pct * n) is computed as (w * n) \div total (exact
\*     arithmetic, no floating-point rounding).
\*   * A graph either carries a graph id (a value of GraphIdValues) or none
\*     (NoId: the expression of line 196 yields None for it).
EXTENDS Integers, Sequences, FiniteSets, TLC

VARIABLES
    \* ---- CustomSpektralDataset -------------------------------------------
    graphs,                 \* self.graphs: the graph id of each graph, in order
    rng,                    \* state of numpy's global random generator
    spc,                    \* position in split_test_train_validation
    call,                   \* the arguments of the running / last call
    by_graph_id,            \* local by_graph_id (cleared by the fallback)
    num_train, num_test, num_validation,
    unique_graph_ids,       \* the set of line 195, shrunk by __handle_graph_id
    unique_graph_ids_list,  \* sorted, then shuffled (lines 235-236)
    i,                      \* loop index of lines 246-256 (0-based, as in code)
    idxs,                   \* the index sequence of lines 208-213
    train_idxs, test_idxs, validation_idxs,
    outcome,                \* how the call ended
    warned,                 \* NoGraphIdsWarning was emitted by this call
    prev,                   \* result of the previous call with the same arguments
    \* ---- SoccerGraphConverterPolars --------------------------------------
    cfg,                    \* the constructor's arguments and the input's schema
    data,                   \* the rows handed in (dataset.data), never modified
    dataset,                \* self.dataset
    settings,               \* self.settings
    cpc,                    \* position in __post_init__ / to_graph_frames
    cerror,                 \* the exception that ended the operation
    dropped_frames,         \* frames _apply_padding reported as dropped
    padding_result,         \* result of _apply_padding before incomplete frames are dropped
    gpos,                   \* frame groups _convert has been through
    result_df,              \* the records _convert has assembled so far
    feature_calls,          \* groups whose ball carrier / features were computed
    graph_frames            \* self.graph_frames

svars == << graphs, rng, spc, call, by_graph_id, num_train, num_test,
            num_validation, unique_graph_ids, unique_graph_ids_list, i, idxs,
            train_idxs, test_idxs, validation_idxs, outcome, warned, prev >>

cvars == << cfg, data, dataset, settings, cpc, cerror, dropped_frames,
            padding_result, gpos,
            result_df, feature_calls, graph_frames >>

vars == << svars, cvars >>

\* ------------------------------------------------------------------ bounds
MaxGraphs == 3
RngStates == 6

\* ------------------------------------------------------------- input sets
NoId == 0
GraphIdValues == {1, 2, 3}
\* (split_train, split_test, split_validation)
Proportions == { <<1, 0, 0>>, <<1, 1, 0>>, <<2, 1, 0>>, <<1, 2, 0>>,
                 <<1, 1, 1>>, <<2, 1, 1>>, <<7, 2, 1>>, <<1, 1, 2>> }
\* random_seed; 0 stands for every falsy value (None, False, 0)
Seeds == {0, 1, 2}

\* ------------------------------------------- converter: configuration, idle
\* The constructor's arguments and what the input's schema holds. Speeds and
\* accelerations are in one unit each; the identifier column is "id".
DefaultCfg ==
    [label_col_is_str |-> TRUE, graph_id_col_is_str |-> TRUE,
     chunk_size_is_int |-> TRUE, chunk_size |-> 2,
     has_label_col |-> TRUE, has_graph_id_col |-> TRUE,
     prediction |-> FALSE,
     ball_carrier_threshold |-> "float",
     non_potential_receiver_node_value |-> "float",
     pad |-> FALSE,
     max_ball_speed |-> 3, max_player_speed |-> 2,
     max_ball_acceleration |-> 2, max_player_acceleration |-> 1]

NoSettings == [compiled |-> FALSE]
NoFrames == [assigned |-> FALSE, frames |-> << >>]

ConverterIdle ==
    /\ cfg = DefaultCfg
    /\ data = << >>
    /\ dataset = << >>
    /\ settings = NoSettings
    /\ cpc = "off"
    /\ cerror = "none"
    /\ dropped_frames = 0
    /\ padding_result = << >>
    /\ gpos = 0
    /\ result_df = << >>
    /\ feature_calls = 0
    /\ graph_frames = NoFrames

\* ---------------------------------------------------------------- helpers
Range(s) == { s[k] : k \in 1..Len(s) }

\* 1, 2, ..., n  (np.arange(dataset_length), shifted to 1-based)
Arange(n) == [k \in 1..n |-> k]

\* sorted(list(S)) for a set of integers
RECURSIVE SortedList(_)
SortedList(S) ==
    IF S = {} THEN << >>
    ELSE LET m == CHOOSE x \in S : \A y \in S : x <= y
         IN  << m >> \o SortedList(S \ {m})

RemoveAt(s, k) == [j \in 1..(Len(s) - 1) |-> IF j < k THEN s[j] ELSE s[j + 1]]

\* The permutation of s a generator in state k produces (factorial number
\* system: every permutation of up to 3 items is produced by some k < 6).
RECURSIVE PermOf(_, _)
PermOf(k, s) ==
    IF s = << >> THEN << >>
    ELSE LET m == Len(s)
             p == (k % m) + 1
         IN  << s[p] >> \o PermOf(k \div m, RemoveAt(s, p))

\* np.random.seed(seed) / np.random.RandomState(seed=seed): the state a seed
\* puts a generator in.
SeedState(seed) == seed % RngStates

\* The generator's state after one shuffle.
Advance(state) == (state + 1) % RngStates

\* np.where(graph_ids == graph_id)[0]: ascending positions of the graphs
\* carrying graph_id.
RECURSIVE WhereFrom(_, _, _)
WhereFrom(ids, gid, k) ==
    IF k > Len(ids) THEN << >>
    ELSE (IF ids[k] = gid THEN << k >> ELSE << >>) \o WhereFrom(ids, gid, k + 1)

\* Mutant of Where: only the first graph carrying graph_id is taken.
WhereFirstOnly(ids, gid) ==
    LET w == WhereFrom(ids, gid, 1) IN IF w = << >> THEN w ELSE << w[1] >>

Where(ids, gid) == WhereFrom(ids, gid, 1)

\* np.where(np.isin(graph_ids, list(S)))[0]
RECURSIVE WhereInFrom(_, _, _)
WhereInFrom(ids, S, k) ==
    IF k > Len(ids) THEN << >>
    ELSE (IF ids[k] \in S THEN << k >> ELSE << >>) \o WhereInFrom(ids, S, k + 1)

\* Mutant of WhereIn: every graph is selected, whatever its graph id.
WhereInEveryGraph(ids, S) == [k \in 1..Len(ids) |-> k]

WhereIn(ids, S) == WhereInFrom(ids, S, 1)

\* ------------------------------------------------- split_test_train_validation
NoCall == [split_train |-> 0, split_test |-> 0, split_validation |-> 0,
           by_graph_id |-> FALSE, random_seed |-> 0]

\* lines 177-181: the proportions a by_graph_id call rejects
BadOrder(c) ==
    \/ c.split_validation > c.split_train
    \/ c.split_test > c.split_train
    \/ c.split_validation > c.split_test

\* int(pct * dataset_length)
IntPct(w, total, n) == (w * n) \div total

NumTrain(c, n) ==
    IntPct(c.split_train, c.split_train + c.split_test + c.split_validation, n)

NumTest(c, n) ==
    IF c.split_validation > 0
    THEN IntPct(c.split_test, c.split_train + c.split_test + c.split_validation, n)
    ELSE n - NumTrain(c, n)

NumValidation(c, n) ==
    IF c.split_validation > 0
    THEN n - NumTrain(c, n) - NumTest(c, n)
    ELSE 0

\* Mutant of UniqueGraphIds: graphs without id are left out of the set.
UniqueGraphIdsWithoutNone(gs) == Range(gs) \ {NoId}

\* lines 195-197
UniqueGraphIds(gs) == Range(gs)

\* Mutant of PlainShuffle: the seed is ignored and the global generator used.
PlainShuffleGlobal(seed, n, g) ==
    [idxs |-> IF seed # 0 THEN PermOf(g, Arange(n)) ELSE Arange(n),
     rng  |-> IF seed # 0 THEN Advance(g) ELSE g]

\* lines 208-213: the index sequence, and the global generator's state
\* afterwards. np.random.RandomState(seed=...) is a generator of its own: the
\* global one (in state g) is neither read nor advanced.
PlainShuffle(seed, n, g) ==
    [idxs |-> IF seed # 0 THEN PermOf(SeedState(seed), Arange(n)) ELSE Arange(n),
     rng  |-> g]

\* lines 216-220 and 224-225
TrainSlice(ix, nt) == SubSeq(ix, 1, nt)
TestSlice3(ix, nt, nte) == SubSeq(ix, nt + 1, nt + nte)
ValidationSlice(ix, nt, nte, nv) == SubSeq(ix, nt + nte + 1, nt + nte + nv)
\* Mutant of TestSlice2: the slice starts one index late.
TestSlice2Late(ix, nt) == SubSeq(ix, nt + 2, Len(ix))

TestSlice2(ix, nt) == SubSeq(ix, nt + 1, Len(ix))

ResetLocals ==
    /\ by_graph_id' = FALSE
    /\ num_train' = 0 /\ num_test' = 0 /\ num_validation' = 0
    /\ unique_graph_ids' = {}
    /\ unique_graph_ids_list' = << >>
    /\ i' = 0
    /\ idxs' = << >>
    /\ train_idxs' = << >> /\ test_idxs' = << >> /\ validation_idxs' = << >>
    /\ outcome' = "running"
    /\ warned' = FALSE

\* A call of split_test_train_validation (split_test_train passes
\* split_validation = 0.0, lines 142-148).
Call ==
    /\ UNCHANGED cvars
    /\ spc = "idle"
    /\ \E p \in Proportions, b \in BOOLEAN, s \in Seeds :
         call' = [split_train |-> p[1], split_test |-> p[2],
                  split_validation |-> p[3], by_graph_id |-> b, random_seed |-> s]
    /\ ResetLocals
    /\ spc' = "validate"
    /\ UNCHANGED << graphs, rng, prev >>

\* lines 171-184
Validate ==
    /\ UNCHANGED cvars
    /\ spc = "validate"
    /\ by_graph_id' = call.by_graph_id
    /\ IF call.by_graph_id /\ BadOrder(call)
       THEN /\ spc' = "raised"
            /\ outcome' = "NotImplementedError"
       ELSE /\ spc' = "sizes"
            /\ UNCHANGED outcome
    /\ UNCHANGED << graphs, rng, call, num_train, num_test, num_validation,
                    unique_graph_ids, unique_graph_ids_list, i, idxs, train_idxs,
                    test_idxs, validation_idxs, warned, prev >>

\* lines 186-204
Sizes ==
    /\ UNCHANGED cvars
    /\ spc = "sizes"
    /\ num_train' = NumTrain(call, Len(graphs))
    /\ num_test' = NumTest(call, Len(graphs))
    /\ num_validation' = NumValidation(call, Len(graphs))
    /\ unique_graph_ids' = UniqueGraphIds(graphs)
    /\ IF UniqueGraphIds(graphs) = {NoId}
       THEN by_graph_id' = FALSE /\ warned' = TRUE
       ELSE UNCHANGED << by_graph_id, warned >>
    /\ spc' = "branch"
    /\ UNCHANGED << graphs, rng, call, unique_graph_ids_list, i, idxs,
                    train_idxs, test_idxs, validation_idxs, outcome, prev >>

\* lines 206-227
PlainSplit ==
    /\ UNCHANGED cvars
    /\ spc = "branch"
    /\ ~by_graph_id
    /\ LET sh == PlainShuffle(call.random_seed, Len(graphs), rng)
           ix == sh.idxs
       IN  /\ idxs' = ix
           /\ rng' = sh.rng
           /\ train_idxs' = TrainSlice(ix, num_train)
           /\ IF num_validation > 0
              THEN /\ test_idxs' = TestSlice3(ix, num_train, num_test)
                   /\ validation_idxs' =
                        ValidationSlice(ix, num_train, num_test, num_validation)
                   /\ outcome' = "returned3"
              ELSE /\ test_idxs' = TestSlice2(ix, num_train)
                   /\ validation_idxs' = << >>
                   /\ outcome' = "returned2"
    /\ spc' = "returned"
    /\ UNCHANGED << graphs, call, by_graph_id, num_train, num_test,
                    num_validation, unique_graph_ids, unique_graph_ids_list, i,
                    warned, prev >>

\* lines 231-238 and 246
ByIdSetup ==
    /\ UNCHANGED cvars
    /\ spc = "branch"
    /\ by_graph_id
    /\ IF \E k \in 1..Len(graphs) : graphs[k] = NoId
       THEN \* g.get("id")[0] of a graph without id (line 231)
            /\ spc' = "raised"
            /\ outcome' = "IndexError"
            /\ UNCHANGED << rng, unique_graph_ids_list >>
       ELSE LET st == IF call.random_seed # 0
                      THEN SeedState(call.random_seed) ELSE rng
            IN  /\ unique_graph_ids_list' =
                     PermOf(st, SortedList(unique_graph_ids))
                /\ rng' = Advance(st)
                /\ spc' = "val_loop"
                /\ UNCHANGED outcome
    /\ i' = 0
    /\ UNCHANGED << graphs, call, by_graph_id, num_train, num_test,
                    num_validation, unique_graph_ids, idxs, train_idxs, test_idxs,
                    validation_idxs, warned, prev >>

\* lines 247-251: one test of the loop condition and, when it holds, one pass
ValidationStep ==
    /\ UNCHANGED cvars
    /\ spc = "val_loop"
    /\ IF num_validation > 0 /\ Len(validation_idxs) < num_validation
       THEN IF i >= Len(unique_graph_ids_list)
            THEN \* unique_graph_ids_list[i] past the end (line 241)
                 /\ spc' = "raised"
                 /\ outcome' = "IndexError"
                 /\ UNCHANGED << unique_graph_ids, validation_idxs, i >>
            ELSE LET graph_id == unique_graph_ids_list[i + 1]
                 IN  /\ unique_graph_ids' = unique_graph_ids \ {graph_id}
                     /\ validation_idxs' =
                          validation_idxs \o Where(graphs, graph_id)
                     /\ i' = i + 1
                     /\ UNCHANGED << spc, outcome >>
       ELSE /\ spc' = "test_loop"
            /\ UNCHANGED << unique_graph_ids, validation_idxs, i, outcome >>
    /\ UNCHANGED << graphs, rng, call, by_graph_id, num_train, num_test,
                    num_validation, unique_graph_ids_list, idxs, train_idxs,
                    test_idxs, warned, prev >>

\* lines 253-256
TestStep ==
    /\ UNCHANGED cvars
    /\ spc = "test_loop"
    /\ IF Len(test_idxs) < num_test
       THEN IF i >= Len(unique_graph_ids_list)
            THEN /\ spc' = "raised"
                 /\ outcome' = "IndexError"
                 /\ UNCHANGED << unique_graph_ids, test_idxs, i >>
            ELSE LET graph_id == unique_graph_ids_list[i + 1]
                 IN  /\ unique_graph_ids' = unique_graph_ids \ {graph_id}
                     /\ test_idxs' = test_idxs \o Where(graphs, graph_id)
                     /\ i' = i + 1
                     /\ UNCHANGED << spc, outcome >>
       ELSE /\ spc' = "assign_train"
            /\ UNCHANGED << unique_graph_ids, test_idxs, i, outcome >>
    /\ UNCHANGED << graphs, rng, call, by_graph_id, num_train, num_test,
                    num_validation, unique_graph_ids_list, idxs, train_idxs,
                    validation_idxs, warned, prev >>

\* lines 258-264
ByIdReturn ==
    /\ UNCHANGED cvars
    /\ spc = "assign_train"
    /\ train_idxs' = WhereIn(graphs, unique_graph_ids)
    /\ outcome' = IF validation_idxs # << >> THEN "returned3" ELSE "returned2"
    /\ spc' = "returned"
    /\ UNCHANGED << graphs, rng, call, by_graph_id, num_train, num_test,
                    num_validation, unique_graph_ids, unique_graph_ids_list, i,
                    idxs, test_idxs, validation_idxs, warned, prev >>

\* The caller repeats a finished call with the same arguments.
CallAgain ==
    /\ UNCHANGED cvars
    /\ spc = "returned"
    /\ prev = << >>
    /\ prev' = << [train |-> train_idxs, test |-> test_idxs,
                   validation |-> validation_idxs, outcome |-> outcome] >>
    /\ ResetLocals
    /\ spc' = "validate"
    /\ UNCHANGED << graphs, rng, call >>

SplitInit ==
    /\ graphs \in UNION { [1..n -> {NoId} \cup GraphIdValues] : n \in 1..MaxGraphs }
    /\ rng \in 0..(RngStates - 1)
    /\ spc = "idle"
    /\ call = NoCall
    /\ by_graph_id = FALSE
    /\ num_train = 0 /\ num_test = 0 /\ num_validation = 0
    /\ unique_graph_ids = {}
    /\ unique_graph_ids_list = << >>
    /\ i = 0
    /\ idxs = << >>
    /\ train_idxs = << >> /\ test_idxs = << >> /\ validation_idxs = << >>
    /\ outcome = "running"
    /\ warned = FALSE
    /\ prev = << >>
    /\ ConverterIdle

SplitNext ==
    \/ Call
    \/ Validate
    \/ Sizes
    \/ PlainSplit
    \/ ByIdSetup
    \/ ValidationStep
    \/ TestStep
    \/ ByIdReturn
    \/ CallAgain

SplitSpec == SplitInit /\ [][SplitNext]_vars

\* ---------------------------------------------------- claims on the split
Finished == spc \in {"returned", "raised"}
Returned == spc = "returned"
AllIdxs == train_idxs \o test_idxs \o validation_idxs
Occurrences(s, k) == Cardinality({ j \in 1..Len(s) : s[j] = k })
ExactlyOnce == \A k \in 1..Len(graphs) : Occurrences(AllIdxs, k) = 1
SubsetOf(k) ==
    IF k \in Range(train_idxs) THEN "train"
    ELSE IF k \in Range(test_idxs) THEN "test"
    ELSE IF k \in Range(validation_idxs) THEN "validation"
    ELSE "none"
IsPermutation(s, n) == Len(s) = n /\ Range(s) = 1..n
NoGraphHasId == \A k \in 1..Len(graphs) : graphs[k] = NoId
EveryGraphHasId == \A k \in 1..Len(graphs) : graphs[k] # NoId
Tie(c) == c.split_train = c.split_test \/ c.split_test = c.split_validation
Floor(w, n) ==
    (w * n) \div (call.split_train + call.split_test + call.split_validation)

\* C1: a by_graph_id split that returns places every graph in exactly one of
\* the returned subsets, and graphs carrying the same graph id are in the
\* same subset.
C1_SameIdSameSubset ==
    (Returned /\ by_graph_id) =>
        /\ ExactlyOnce
        /\ \A k1, k2 \in 1..Len(graphs) :
             graphs[k1] = graphs[k2] => SubsetOf(k1) = SubsetOf(k2)
        /\ (outcome = "returned2" => validation_idxs = << >>)

\* C1 witness: a returned by_graph_id split with two graphs of one id together
\* in one subset and a graph of another id in another subset.
C1_Witness ==
    /\ Returned /\ by_graph_id
    /\ \E k1, k2, k3 \in 1..Len(graphs) :
         /\ k1 # k2 /\ graphs[k1] = graphs[k2] /\ graphs[k3] # graphs[k1]
         /\ SubsetOf(k1) = "train" /\ SubsetOf(k3) = "test"

C3_FallbackNeverFails ==
    (Finished /\ call.by_graph_id /\ NoGraphHasId) =>
        /\ Returned
        /\ warned
        /\ ~by_graph_id
        /\ ExactlyOnce

\* C3 (amended): the same, for proportions with train >= test >= validation;
\* other proportions are rejected with NotImplementedError before the
\* fallback is considered (no warning, no subset).
C3_FallbackForOrderedProportions ==
    (Finished /\ call.by_graph_id /\ NoGraphHasId) =>
        IF BadOrder(call)
        THEN /\ spc = "raised" /\ outcome = "NotImplementedError"
             /\ ~warned /\ AllIdxs = << >>
        ELSE /\ Returned
             /\ outcome \in {"returned2", "returned3"}
             /\ warned
             /\ ~by_graph_id
             /\ AllIdxs = idxs
             /\ ExactlyOnce

\* C3 witness: a by_graph_id call on graphs without ids that fell back and
\* returned a 3-way split.
C3_Witness ==
    /\ Returned /\ call.by_graph_id /\ NoGraphHasId /\ warned
    /\ outcome = "returned3" /\ Len(graphs) >= 2

\* C4: with by_graph_id=True the call fails with the configuration error,
\* before any index is assigned, whenever train >= test >= validation does not
\* hold; proportions with ties are accepted and produce a split.
C4_OrderCheckedTiesSplit ==
    (Finished /\ call.by_graph_id /\ EveryGraphHasId) =>
        IF BadOrder(call)
        THEN /\ outcome = "NotImplementedError"
             /\ AllIdxs = << >> /\ idxs = << >>
        ELSE (Tie(call) => Returned /\ ExactlyOnce)

\* C4, the part the code satisfies: the rejection happens exactly for the
\* unordered proportions, before anything is assigned; ties pass validation.
C4_RejectionOnly ==
    (Finished /\ call.by_graph_id) =>
        /\ (outcome = "NotImplementedError") = BadOrder(call)
        /\ (BadOrder(call) => AllIdxs = << >> /\ idxs = << >> /\ i = 0)

\* C5: a split without graph ids is deterministic in the seed: a repeated call
\* with the same arguments returns the same indices in the same order.
C5_SameSeedSameSplit ==
    (Returned /\ ~by_graph_id /\ prev # << >>) =>
        /\ prev[1].train = train_idxs
        /\ prev[1].test = test_idxs
        /\ prev[1].validation = validation_idxs
        /\ prev[1].outcome = outcome

\* C5 witness: a seeded split, repeated, whose index sequence is permuted.
C5_Witness ==
    /\ Returned /\ ~by_graph_id /\ prev # << >>
    /\ call.random_seed # 0 /\ Len(graphs) = 3
    /\ \E k \in 1..Len(idxs) : idxs[k] # k
    /\ prev[1].train = train_idxs /\ train_idxs # << >>

\* ============================================ SoccerGraphConverterPolars
\* A row of the dataset. x stands for the numeric motion columns other than
\* v and a (x, y, z, vx, vy, vz, ax, ay, az are treated alike by the code
\* modelled here); position_name stands for the context columns timestamp,
\* ball_state and position_name.
Row(g, p, f, team, owner, ident, x, v, a, pos, label, gid) ==
    [game_id |-> g, period_id |-> p, frame_id |-> f, team_id |-> team,
     ball_owning_team_id |-> owner, id |-> ident, x |-> x, v |-> v, a |-> a,
     position_name |-> pos, label |-> label, graph_id |-> gid]

\* settings.ball_id
BallId == "ball"

\* rows per team of a complete frame (lines 116-117 and 159-160)
TeamSize == 11

Reverse(s) == [k \in 1..Len(s) |-> s[Len(s) + 1 - k]]

RECURSIVE Flatten(_)
Flatten(ss) == IF ss = << >> THEN << >> ELSE Head(ss) \o Flatten(Tail(ss))

\* The distinct values of s, in the order of their first occurrence.
RECURSIVE DistinctFrom(_, _, _)
DistinctFrom(s, k, seen) ==
    IF k > Len(s) THEN << >>
    ELSE IF s[k] \in seen THEN DistinctFrom(s, k + 1, seen)
    ELSE << s[k] >> \o DistinctFrom(s, k + 1, seen \cup {s[k]})

DistinctInOrder(s) == DistinctFrom(s, 1, {})

\* ------------------------------------------------ _sport_specific_checks
\* Mutant of SportSpecificChecks: the label column is required in every mode.
SportSpecificChecksLabelAlways(c) ==
    IF ~c.label_col_is_str THEN "label_col_type"
    ELSE IF ~c.graph_id_col_is_str THEN "graph_id_col_type"
    ELSE IF ~c.chunk_size_is_int THEN "chunk_size_type"
    ELSE IF ~c.has_label_col THEN "label_col_missing"
    ELSE IF ~c.has_graph_id_col THEN "graph_id_col_missing"
    ELSE IF c.ball_carrier_threshold = "other" THEN "ball_carrier_threshold_type"
    ELSE IF c.non_potential_receiver_node_value = "other"
         THEN "non_potential_receiver_node_value_type"
    ELSE "ok"

\* lines 232-262, in the order of the code; "ok" when nothing is raised
SportSpecificChecks(c) ==
    IF ~c.label_col_is_str THEN "label_col_type"
    ELSE IF ~c.graph_id_col_is_str THEN "graph_id_col_type"
    ELSE IF ~c.chunk_size_is_int THEN "chunk_size_type"
    ELSE IF ~c.has_label_col /\ ~c.prediction THEN "label_col_missing"
    ELSE IF ~c.has_graph_id_col THEN "graph_id_col_missing"
    ELSE IF c.ball_carrier_threshold = "other" THEN "ball_carrier_threshold_type"
    ELSE IF c.non_potential_receiver_node_value = "other"
         THEN "non_potential_receiver_node_value_type"
    ELSE "ok"

\* ------------------------------------------------------- _apply_settings
\* lines 213-230
ApplySettings(c) ==
    [compiled |-> TRUE,
     ball_id |-> BallId,
     max_player_speed |-> c.max_player_speed,
     max_ball_speed |-> c.max_ball_speed,
     max_player_acceleration |-> c.max_player_acceleration,
     max_ball_acceleration |-> c.max_ball_acceleration,
     non_potential_receiver_node_value |-> c.non_potential_receiver_node_value,
     ball_carrier_treshold |-> c.ball_carrier_threshold,
     pad |-> c.pad]

\* -------------------------------------------------------- _apply_filters
\* Mutant of ClampV: the ball's bound is never used.
ClampVPlayerBoundOnly(r, st) ==
    IF r.v > st.max_player_speed THEN st.max_player_speed ELSE r.v

\* lines 186-197
ClampV(r, st) ==
    IF r.id = st.ball_id /\ r.v > st.max_ball_speed THEN st.max_ball_speed
    ELSE IF r.id # st.ball_id /\ r.v > st.max_player_speed
         THEN st.max_player_speed
    ELSE r.v

\* lines 199-210
ClampA(r, st) ==
    IF r.id = st.ball_id /\ r.a > st.max_ball_acceleration
    THEN st.max_ball_acceleration
    ELSE IF r.id # st.ball_id /\ r.a > st.max_player_acceleration
         THEN st.max_player_acceleration
    ELSE r.a

\* lines 184-211: v first, then a, every other column untouched
ApplyFilters(df, st) ==
    [k \in 1..Len(df) |->
        [ [df[k] EXCEPT !.v = ClampV(df[k], st)] EXCEPT !.a = ClampA(df[k], st) ]]

\* -------------------------------------------------------- _apply_padding
GroupKey(r) ==
    << r.game_id, r.period_id, r.frame_id, r.team_id, r.ball_owning_team_id >>

FrameKey(r) == << r.game_id, r.period_id, r.frame_id >>

GroupCount(df, key) == Len(SelectSeq(df, LAMBDA r : GroupKey(r) = key))

\* pl.first(col) of a group: its first row in the order of df
GroupFirst(df, key) ==
    df[CHOOSE k \in 1..Len(df) :
          /\ GroupKey(df[k]) = key
          /\ \A j \in 1..(k - 1) : GroupKey(df[j]) # key]

\* lines 112-119
TargetLength(key) == IF key[4] = "ball" THEN 1 ELSE TeamSize

\* Mutant of PaddingRow: the motion columns of the base row are kept.
PaddingRowKeepsMotion(base) == [base EXCEPT !.id = "None"]

\* lines 134 and 140-143: the group's columns and the kept columns of its
\* first row; id "None", numeric columns 0.0
PaddingRow(base) ==
    [base EXCEPT !.id = "None", !.x = 0, !.v = 0, !.a = 0]

\* lines 121-135: the rows to add (group_by yields the groups in no promised
\* order: descending picks the reverse of the order of first occurrence)
PaddingRows(df, descending) ==
    LET keys == DistinctInOrder([k \in 1..Len(df) |-> GroupKey(df[k])])
        short == SelectSeq(keys,
                     LAMBDA key : GroupCount(df, key) < TargetLength(key))
        ordered == IF descending THEN Reverse(short) ELSE short
    IN  Flatten([g \in 1..Len(ordered) |->
            [j \in 1..(TargetLength(ordered[g]) - GroupCount(df, ordered[g])) |->
                PaddingRow(GroupFirst(df, ordered[g]))]])

\* lines 155-165
FrameComplete(df, fk) ==
    /\ Len(SelectSeq(df, LAMBDA r : FrameKey(r) = fk /\ r.team_id = "ball")) = 1
    /\ Len(SelectSeq(df, LAMBDA r : FrameKey(r) = fk
                            /\ r.team_id = r.ball_owning_team_id)) = TeamSize
    /\ Len(SelectSeq(df, LAMBDA r : FrameKey(r) = fk /\ r.team_id # "ball"
                            /\ r.team_id # r.ball_owning_team_id)) = TeamSize

FrameKeys(df) == { FrameKey(df[k]) : k \in 1..Len(df) }

\* lines 89-182 (the three boolean columns the join adds are left out);
\* result is the frame of line 147, df itself when nothing is added (line 130)
ApplyPadding(df, descending) ==
    LET padding == PaddingRows(df, descending)
    IN  IF padding = << >>
        THEN [rows |-> df, dropped |-> 0, result |-> df]
        ELSE LET result == df \o padding
                 complete == { fk \in FrameKeys(result) : FrameComplete(result, fk) }
             IN  [rows |-> SelectSeq(result, LAMBDA r : FrameKey(r) \in complete),
                  dropped |-> Cardinality(FrameKeys(result)) - Cardinality(complete),
                  result |-> result]

\* ---------------------------------------------------- _convert, __compute
ConvertKey(r) == << r.game_id, r.frame_id >>

\* group_by(["game_id", "frame_id"], maintain_order=True), lines 342-344
ConvertKeys(df) == DistinctInOrder([k \in 1..Len(df) |-> ConvertKey(df[k])])

GroupRows(df, key) == SelectSeq(df, LAMBDA r : ConvertKey(r) = key)

\* Mutant of Compute: the label check is skipped in every mode.
ComputeUncheckedLabel(key, rows, prediction) ==
    IF \E k \in 1..Len(rows) : rows[k].graph_id # rows[1].graph_id
    THEN [error |-> "MultipleGraphIds"]
    ELSE [error |-> "ok",
          record |-> [game_id |-> key[1], frame_id |-> key[2],
                      x_shape_0 |-> Len(rows),
                      graph_id |-> rows[1].graph_id, label |-> rows[1].label]]

\* lines 275-339; the matrices are represented by their row count
Compute(key, rows, prediction) ==
    IF \E k \in 1..Len(rows) : rows[k].graph_id # rows[1].graph_id
    THEN [error |-> "MultipleGraphIds"]
    ELSE IF ~prediction /\ \E k \in 1..Len(rows) : rows[k].label # rows[1].label
    THEN [error |-> "MultipleLabels"]
    ELSE [error |-> "ok",
          record |-> [game_id |-> key[1], frame_id |-> key[2],
                      x_shape_0 |-> Len(rows),
                      graph_id |-> rows[1].graph_id, label |-> rows[1].label]]

\* Mutant of AfterGroup: a failing group is skipped and the rest kept.
AfterGroupSkipFailed(partial, res, pos) ==
    IF res.error # "ok"
    THEN [cpc |-> "converting", cerror |-> "none", result_df |-> partial,
          gpos |-> pos + 1]
    ELSE [cpc |-> "converting", cerror |-> "none",
          result_df |-> Append(partial, res.record), gpos |-> pos + 1]

\* lines 342-349: an exception of __compute leaves agg, _convert and
\* to_graph_frames; what was assembled so far is lost
AfterGroup(partial, res, pos) ==
    IF res.error # "ok"
    THEN [cpc |-> "raised", cerror |-> res.error, result_df |-> << >>,
          gpos |-> pos]
    ELSE [cpc |-> "converting", cerror |-> "none",
          result_df |-> Append(partial, res.record), gpos |-> pos + 1]

\* ------------------------------- to_graph_frames, the local helper
\* DataFrame.iter_slices(n_rows), line 381: consecutive slices of n_rows rows,
\* the last one shorter (n_rows >= 1)
RECURSIVE IterSlices(_, _)
IterSlices(df, n_rows) ==
    IF df = << >> THEN << >>
    ELSE IF Len(df) <= n_rows THEN << df >>
    ELSE << SubSeq(df, 1, n_rows) >>
            \o IterSlices(SubSeq(df, n_rows + 1, Len(df)), n_rows)

\* lines 382-404: the records of one chunk, one per row, in row order (the
\* matrices a, x, e are represented by the row count of x)
ChunkGraphList(chunk) ==
    [k \in 1..Len(chunk) |->
        [x |-> chunk[k].x_shape_0, y |-> << chunk[k].label >>,
         id |-> chunk[k].graph_id]]

\* lines 376-408: the local function __convert_to_graph_data_list of
\* to_graph_frames (graph_list.extend per chunk)
ConvertToGraphDataList(df, chunk_size) ==
    LET slices == IterSlices(df, chunk_size)
    IN  Flatten([c \in 1..Len(slices) |-> ChunkGraphList(slices[c])])

\* ------------------------------------------------------------- actions
SplitterIdle ==
    /\ graphs = << >> /\ rng = 0 /\ spc = "off" /\ call = NoCall
    /\ by_graph_id = FALSE
    /\ num_train = 0 /\ num_test = 0 /\ num_validation = 0
    /\ unique_graph_ids = {} /\ unique_graph_ids_list = << >>
    /\ i = 0 /\ idxs = << >>
    /\ train_idxs = << >> /\ test_idxs = << >> /\ validation_idxs = << >>
    /\ outcome = "running" /\ warned = FALSE /\ prev = << >>

\* __post_init__, lines 75-82
PostInitChecks ==
    /\ UNCHANGED svars
    /\ cpc = "new"
    /\ dataset' = data
    /\ IF SportSpecificChecks(cfg) # "ok"
       THEN cpc' = "config_error" /\ cerror' = SportSpecificChecks(cfg)
       ELSE cpc' = "checked" /\ UNCHANGED cerror
    /\ UNCHANGED << cfg, data, settings, dropped_frames,
                    padding_result, gpos, result_df,
                    feature_calls, graph_frames >>

\* __post_init__, line 83
CompileSettings ==
    /\ UNCHANGED svars
    /\ cpc = "checked"
    /\ settings' = ApplySettings(cfg)
    /\ cpc' = "compiled"
    /\ UNCHANGED << cfg, data, dataset, cerror, dropped_frames,
                    padding_result, gpos, result_df,
                    feature_calls, graph_frames >>

\* __post_init__, line 84
FilterRows ==
    /\ UNCHANGED svars
    /\ cpc = "compiled"
    /\ dataset' = ApplyFilters(dataset, settings)
    /\ cpc' = "filtered"
    /\ UNCHANGED << cfg, data, settings, cerror, dropped_frames,
                    padding_result, gpos, result_df,
                    feature_calls, graph_frames >>

\* __post_init__, lines 86-87
PadRows ==
    /\ UNCHANGED svars
    /\ cpc = "filtered"
    /\ IF cfg.pad
       THEN \E descending \in BOOLEAN :
               LET out == ApplyPadding(dataset, descending)
               IN  /\ dataset' = out.rows
                   /\ dropped_frames' = out.dropped
                   /\ padding_result' = out.result
       ELSE UNCHANGED << dataset, dropped_frames, padding_result >>
    /\ cpc' = "constructed"
    /\ UNCHANGED << cfg, data, settings, cerror, gpos, result_df, feature_calls,
                    graph_frames >>

\* to_graph_frames, line 410, entering _convert (lines 342-349): a column
\* of __exprs_variables the dataset lacks ends the call
ToGraphFrames ==
    /\ UNCHANGED svars
    /\ cpc = "constructed"
    /\ IF ~cfg.has_label_col
       THEN cpc' = "raised" /\ cerror' = "ColumnNotFoundError"
       ELSE cpc' = "converting" /\ UNCHANGED cerror
    /\ gpos' = 0
    /\ result_df' = << >>
    /\ UNCHANGED << cfg, data, dataset, settings, dropped_frames,
                    padding_result, feature_calls,
                    graph_frames >>

\* _convert: __compute on the next frame group (lines 345-348, 275-339)
ConvertGroup ==
    /\ UNCHANGED svars
    /\ cpc = "converting"
    /\ gpos < Len(ConvertKeys(dataset))
    /\ LET key == ConvertKeys(dataset)[gpos + 1]
           res == Compute(key, GroupRows(dataset, key), cfg.prediction)
           nxt == AfterGroup(result_df, res, gpos)
       IN  /\ cpc' = nxt.cpc
           /\ cerror' = nxt.cerror
           /\ result_df' = nxt.result_df
           /\ gpos' = nxt.gpos
           /\ feature_calls' = IF res.error = "ok" THEN feature_calls + 1
                               ELSE feature_calls
    /\ UNCHANGED << cfg, data, dataset, settings, dropped_frames,
                    padding_result, graph_frames >>

\* _convert returns graph_df (lines 351-371)
ConvertDone ==
    /\ UNCHANGED svars
    /\ cpc = "converting"
    /\ gpos = Len(ConvertKeys(dataset))
    /\ cpc' = "converted"
    /\ UNCHANGED << cfg, data, dataset, settings, cerror, dropped_frames,
                    padding_result, gpos,
                    result_df, feature_calls, graph_frames >>

\* to_graph_frames, line 411: the name __convert_to_graph_data_list is
\* private to the class, so self.__convert_to_graph_data_list looks up the
\* attribute _SoccerGraphConverterPolars__convert_to_graph_data_list of self;
\* the function of lines 376-408 is a local of to_graph_frames, not an
\* attribute, and the lookup raises AttributeError before it is called.
StoreGraphFrames ==
    /\ UNCHANGED svars
    /\ cpc = "converted"
    /\ cpc' = "raised"
    /\ cerror' = "AttributeError"
    /\ result_df' = << >>
    /\ UNCHANGED << cfg, data, dataset, settings, dropped_frames,
                    padding_result, gpos,
                    feature_calls, graph_frames >>

\* -------------------------------------------------------------- inputs
MaxKin == 4
MaxRows == 3

SpeedSettings ==
    { [max_ball_speed |-> 3, max_player_speed |-> 2,
       max_ball_acceleration |-> 2, max_player_acceleration |-> 1],
      [max_ball_speed |-> 1, max_player_speed |-> 3,
       max_ball_acceleration |-> 1, max_player_acceleration |-> 2] }

WithSpeeds(c, sp) ==
    [c EXCEPT !.max_ball_speed = sp.max_ball_speed,
              !.max_player_speed = sp.max_player_speed,
              !.max_ball_acceleration = sp.max_ball_acceleration,
              !.max_player_acceleration = sp.max_player_acceleration]

\* one frame: a ball row and a player row of every speed and acceleration
KinematicData ==
    { << Row(1, 1, 1, "ball", "H", "ball", 1, vb, ab, "ball", 1, 1),
         Row(1, 1, 1, "H", "H", "p", 1, vp, ap, "GK", 1, 1) >> :
        vb \in 0..MaxKin, ab \in 0..MaxKin, vp \in 0..MaxKin, ap \in 0..MaxKin }

KinematicInputs ==
    { [cfg |-> WithSpeeds(DefaultCfg, sp), data |-> d] :
        sp \in SpeedSettings, d \in KinematicData }

\* n rows of one team in one frame; the first is the goalkeeper
TeamRows(g, f, team, owner, n) ==
    [k \in 1..n |->
        Row(g, 1, f, team, owner, IF team = "ball" THEN "ball" ELSE "p",
            k, MaxKin, MaxKin, IF k = 1 THEN "GK" ELSE "FP", 1, f)]

FrameRows(f, shape) ==
    TeamRows(1, f, "ball", "H", shape[1]) \o TeamRows(1, f, "H", "H", shape[2])
        \o TeamRows(1, f, "A", "H", shape[3])

\* (ball rows, rows of the owning team, rows of the other team)
FrameShapes ==
    {0, 1, 2} \X {0, TeamSize - 2, TeamSize, TeamSize + 1}
              \X {0, TeamSize - 1, TeamSize, TeamSize + 1}

SecondFrameShapes == { <<0, 0, 0>>, <<1, TeamSize, TeamSize>>,
                       <<1, TeamSize - 1, TeamSize>> }

PaddingInputs ==
    { [cfg |-> [DefaultCfg EXCEPT !.pad = TRUE],
       data |-> FrameRows(1, s1) \o FrameRows(2, s2)] :
        s1 \in FrameShapes \ {<<0, 0, 0>>}, s2 \in SecondFrameShapes }

\* rows of up to three frame groups in every interleaving, with every label
\* and graph id
ConvertKeyValues == { <<1, 1>>, <<1, 2>>, <<2, 1>> }

GroupingRows ==
    { Row(key[1], 1, key[2], "H", "H", "p", 1, 1, 1, "FP", label, gid) :
        key \in ConvertKeyValues, label \in {0, 1}, gid \in {1, 2} }

GroupingInputs ==
    { [cfg |-> [DefaultCfg EXCEPT !.prediction = pr], data |-> d] :
        pr \in BOOLEAN,
        d \in UNION { [1..n -> GroupingRows] : n \in 1..MaxRows } }

ConfigInputs ==
    { [cfg |-> [DefaultCfg EXCEPT
                  !.label_col_is_str = ls, !.graph_id_col_is_str = gs,
                  !.chunk_size_is_int = ci[1], !.chunk_size = ci[2],
                  !.has_label_col = hl, !.has_graph_id_col = hg,
                  !.prediction = pr,
                  !.ball_carrier_threshold = bt,
                  !.non_potential_receiver_node_value = nv],
       data |-> << Row(1, 1, 1, "ball", "H", "ball", 1, MaxKin, MaxKin, "ball", 1, 1),
                   Row(1, 1, 1, "H", "H", "p", 1, MaxKin, MaxKin, "GK", 1, 1) >>] :
        ls \in BOOLEAN, gs \in BOOLEAN,
        ci \in { <<FALSE, 0>>, <<TRUE, -1>>, <<TRUE, 0>>, <<TRUE, 1>> },
        hl \in BOOLEAN, hg \in BOOLEAN, pr \in BOOLEAN,
        bt \in {"float", "falsy", "other"}, nv \in {"float", "falsy", "other"} }

\* chunk sizes: 1, one that does not divide MaxRows groups, one above MaxRows
ChunkSizes == {1, MaxRows - 1, MaxRows + 1}

\* consistent groups (one label, one graph id per frame) under every chunk size
ChunkInputs ==
    { [cfg |-> [DefaultCfg EXCEPT !.chunk_size = cs], data |-> d] :
        cs \in ChunkSizes,
        d \in UNION { [1..n -> { Row(key[1], 1, key[2], "H", "H", "p", 1, 1, 1,
                                     "FP", key[1], key[2]) :
                                   key \in ConvertKeyValues }] :
                       n \in 1..MaxRows } }

ConvInputs == KinematicInputs \cup PaddingInputs \cup GroupingInputs
                  \cup ConfigInputs \cup ChunkInputs

ConvInit ==
    /\ SplitterIdle
    /\ \E inp \in ConvInputs : cfg = inp.cfg /\ data = inp.data
    /\ dataset = << >>
    /\ settings = NoSettings
    /\ cpc = "new"
    /\ cerror = "none"
    /\ dropped_frames = 0
    /\ padding_result = << >>
    /\ gpos = 0
    /\ result_df = << >>
    /\ feature_calls = 0
    /\ graph_frames = NoFrames

ConvNext ==
    \/ PostInitChecks
    \/ CompileSettings
    \/ FilterRows
    \/ PadRows
    \/ ToGraphFrames
    \/ ConvertGroup
    \/ ConvertDone
    \/ StoreGraphFrames

ConvSpec == ConvInit /\ [][ConvNext]_vars

\* ------------------------------------------------ claims on the converter
Constructed == cpc \in {"constructed", "converting", "converted", "raised"}
NGroups == Len(ConvertKeys(dataset))
GroupAt(k) == GroupRows(dataset, ConvertKeys(dataset)[k])
LabelsOf(rows) == { rows[k].label : k \in 1..Len(rows) }
GraphIdsOf(rows) == { rows[k].graph_id : k \in 1..Len(rows) }
MixedLabels(rows) == Cardinality(LabelsOf(rows)) > 1
MixedGraphIds(rows) == Cardinality(GraphIdsOf(rows)) > 1
IntegrityErrors == {"MultipleLabels", "MultipleGraphIds"}
RowsOfFrame(df, fk) == { k \in 1..Len(df) : FrameKey(df[k]) = fk }

\* one ball row, TeamSize rows of the ball-owning team, TeamSize other rows
StructurallyComplete(df, fk) ==
    /\ Cardinality({ k \in RowsOfFrame(df, fk) : df[k].team_id = "ball" }) = 1
    /\ Cardinality({ k \in RowsOfFrame(df, fk) :
                       df[k].team_id = df[k].ball_owning_team_id }) = 11
    /\ Cardinality({ k \in RowsOfFrame(df, fk) :
                       /\ df[k].team_id # "ball"
                       /\ df[k].team_id # df[k].ball_owning_team_id }) = 11

\* C6: when padding is requested, every frame present in the rows returned by
\* _apply_padding has exactly one ball row, 11 rows of the ball-owning team
\* and 11 rows of the other team; every other frame is absent from the output.
C6_PaddedFramesComplete ==
    (cpc = "constructed" /\ cfg.pad) =>
        \A k \in 1..Len(dataset) : StructurallyComplete(dataset, FrameKey(dataset[k]))

\* C6, the path the code gets right: when _apply_padding adds at least one
\* row, the frames it returns are complete.
C6_CompleteWhenRowsAdded ==
    (cpc = "constructed" /\ cfg.pad
        /\ \E k \in 1..Len(data) :
              GroupCount(data, GroupKey(data[k])) < TargetLength(GroupKey(data[k]))) =>
        \A k \in 1..Len(dataset) : StructurallyComplete(dataset, FrameKey(dataset[k]))

\* What C7 says of a conversion, for a given notion Mixed of an inconsistent
\* group: no group _convert got through is Mixed and each has exactly one
\* record; an integrity error is raised at a Mixed group, before its features
\* are computed, and leaves no record.
C7_Statement(Mixed(_)) ==
    /\ cpc \in {"converting", "converted"} =>
          /\ Len(result_df) = gpos
          /\ feature_calls = gpos
          /\ \A k \in 1..gpos :
                /\ ~Mixed(GroupAt(k))
                /\ result_df[k].graph_id \in GraphIdsOf(GroupAt(k))
                /\ result_df[k].label \in LabelsOf(GroupAt(k))
    /\ (cpc = "raised" /\ cerror \in IntegrityErrors) =>
          /\ Mixed(GroupAt(gpos + 1))
          /\ feature_calls = gpos
          /\ result_df = << >>
          /\ graph_frames = NoFrames

\* C7 (as claimed): a frame group whose rows hold more than one label value,
\* or more than one graph-id value, raises before ball carrier, adjacency and
\* features are computed; no record is emitted for it and no value is picked.
C7_MixedGroupRaises ==
    C7_Statement(LAMBDA rows : MixedLabels(rows) \/ MixedGraphIds(rows))

\* C7 (amended): the same for more than one graph-id value in every mode and
\* for more than one label value when prediction is off; with prediction on,
\* labels are not compared and the first row's label is emitted.
C7_MixedGroupRaisesUnlessPrediction ==
    /\ C7_Statement(LAMBDA rows :
          MixedGraphIds(rows) \/ (~cfg.prediction /\ MixedLabels(rows)))
    /\ (cpc \in {"converting", "converted"} /\ cfg.prediction) =>
          \A k \in 1..gpos : result_df[k].label = GroupAt(k)[1].label

\* C7 witness: a group with two labels raised after an earlier group was
\* assembled.
C7_Witness ==
    /\ cpc = "raised" /\ cerror = "MultipleLabels" /\ gpos = 1
    /\ MixedLabels(GroupAt(2)) /\ ~MixedGraphIds(GroupAt(2))
    /\ feature_calls = 1

AssemblyFails(rows) ==
    MixedGraphIds(rows) \/ (~cfg.prediction /\ MixedLabels(rows))

\* C8: a failure while assembling any one frame group aborts the whole
\* conversion: to_graph_frames raises that failure, no partial list of
\* records is returned or kept, and graph_frames stays as it was.
C8_FailureAbortsConversion ==
    (cfg.has_label_col /\ \E k \in 1..NGroups : AssemblyFails(GroupAt(k))) =>
        /\ cpc # "converted"
        /\ cpc = "raised" =>
              /\ cerror \in IntegrityErrors
              /\ result_df = << >>
        /\ graph_frames = NoFrames
        /\ Len(result_df) <= gpos

\* C8 witness: the second group failed; the record of the first one is gone.
C8_Witness ==
    /\ cpc = "raised" /\ cerror = "MultipleGraphIds" /\ gpos = 1
    /\ feature_calls = 1 /\ result_df = << >>
    /\ ~AssemblyFails(GroupAt(1))

VBound(r) == IF r.id = BallId THEN cfg.max_ball_speed ELSE cfg.max_player_speed
ABound(r) ==
    IF r.id = BallId THEN cfg.max_ball_acceleration
    ELSE cfg.max_player_acceleration

\* C9: after construction every row has v and a at most the bound of its
\* class (ball when its identifier is the ball id, player otherwise); the
\* filter replaces a value above the bound by the bound and leaves a value
\* at or below it, and every other column, unchanged.
C9_ClampedToClassBound ==
    /\ (cpc = "filtered" \/ Constructed) =>
          \A k \in 1..Len(dataset) :
              dataset[k].v <= VBound(dataset[k]) /\ dataset[k].a <= ABound(dataset[k])
    /\ (cpc = "filtered" \/ (cpc = "constructed" /\ ~cfg.pad)) =>
          /\ Len(dataset) = Len(data)
          /\ \A k \in 1..Len(data) :
                /\ data[k].v > VBound(data[k]) => dataset[k].v = VBound(data[k])
                /\ data[k].v <= VBound(data[k]) => dataset[k].v = data[k].v
                /\ data[k].a > ABound(data[k]) => dataset[k].a = ABound(data[k])
                /\ data[k].a <= ABound(data[k]) => dataset[k].a = data[k].a
                /\ [dataset[k] EXCEPT !.v = 0, !.a = 0]
                      = [data[k] EXCEPT !.v = 0, !.a = 0]

\* C9 witness: a constructed converter whose ball row was clamped to the
\* ball's bound and whose player row kept a speed the ball's bound allows
\* only to the ball, clamped to the player's bound, its acceleration kept.
C9_Witness ==
    /\ cpc = "constructed" /\ ~cfg.pad /\ Len(data) = 2
    /\ data[1].id = BallId /\ data[1].v > cfg.max_ball_speed
    /\ dataset[1].v = cfg.max_ball_speed
    /\ data[2].id # BallId /\ data[2].v > cfg.max_player_speed
    /\ data[2].v <= cfg.max_ball_speed
    /\ dataset[2].v = cfg.max_player_speed
    /\ data[2].a <= cfg.max_player_acceleration /\ dataset[2].a = data[2].a
    /\ data[1].a = cfg.max_ball_acceleration /\ dataset[1].a = data[1].a

FirstIndex(df, key) ==
    CHOOSE k \in 1..Len(df) :
        /\ ConvertKey(df[k]) = key
        /\ \A j \in 1..(k - 1) : ConvertKey(df[j]) # key

\* recs holds one record per (game_id, frame_id) pair of df, in the order in
\* which the pairs first occur in df
OnePerPairInOrder(recs, df) ==
    /\ { << recs[k].game_id, recs[k].frame_id >> : k \in 1..Len(recs) }
          = { ConvertKey(df[k]) : k \in 1..Len(df) }
    /\ \A a, b \in 1..Len(recs) :
          a < b => FirstIndex(df, << recs[a].game_id, recs[a].frame_id >>)
                     < FirstIndex(df, << recs[b].game_id, recs[b].frame_id >>)

\* C10: to_graph_frames emits exactly one record per distinct
\* (game_id, frame_id) pair of the dataset, in the order in which the pairs
\* are first encountered in the rows.
C10_OneRecordPerFrameInOrder ==
    (cpc = "raised" /\ cfg.has_label_col /\ dataset # << >>
        /\ \A k \in 1..NGroups : ~AssemblyFails(GroupAt(k))) =>
        /\ cerror = "none"
        /\ graph_frames.assigned
        /\ OnePerPairInOrder(graph_frames.frames, dataset)

\* C10, the part the code gets right: the frame _convert returns holds one
\* record per pair in first-encounter order.
C10_ConvertKeepsOrder ==
    (cpc = "converted") => OnePerPairInOrder(result_df, dataset)

\* the frame _convert returns for the dataset (every group consistent)
GraphDf ==
    [k \in 1..NGroups |->
        Compute(ConvertKeys(dataset)[k], GroupAt(k), cfg.prediction).record]

\* C11: chunking has no effect on the result: to_graph_frames returns, for
\* every accepted chunk size (1, a size that does not divide the number of
\* frame groups, a size above it), the same list of records, the one obtained
\* with any other chunk size, in the same order.
C11_ChunkSizeIrrelevant ==
    (cpc = "raised" /\ cfg.has_label_col /\ dataset # << >>
        /\ cfg.chunk_size \in ChunkSizes
        /\ \A k \in 1..NGroups : ~AssemblyFails(GroupAt(k))) =>
        /\ graph_frames.assigned
        /\ \A cs \in ChunkSizes :
              graph_frames.frames = ConvertToGraphDataList(GraphDf, cs)

\* C11, the part the code gets right: the local helper of to_graph_frames,
\* applied to the frame _convert returned, gives the same list for every
\* chunk size.
C11_HelperIgnoresChunks ==
    (cpc = "converted") =>
        \A c1, c2 \in ChunkSizes :
            /\ ConvertToGraphDataList(result_df, c1)
                  = ConvertToGraphDataList(result_df, c2)
            /\ Len(ConvertToGraphDataList(result_df, c1)) = NGroups

\* C12: settings validation accepts a chunk size only when it is a positive
\* integer: a chunk size that is not an integer, or is zero or negative, makes
\* the construction fail with a configuration error.
C12_ChunkSizePositiveInteger ==
    (cpc # "new" /\ (~cfg.chunk_size_is_int \/ cfg.chunk_size <= 0)) =>
        cpc = "config_error"

\* C12, the part the code satisfies: a chunk size that is not an integer is
\* rejected at validation, before settings are compiled.
C12_NonIntegerRejected ==
    (cpc # "new" /\ ~cfg.chunk_size_is_int) =>
        /\ cpc = "config_error"
        /\ cerror \in {"label_col_type", "graph_id_col_type", "chunk_size_type"}
        /\ settings = NoSettings

\* everything _sport_specific_checks tests other than the two columns
OtherSettingsValid ==
    /\ cfg.label_col_is_str /\ cfg.graph_id_col_is_str /\ cfg.chunk_size_is_int
    /\ cfg.ball_carrier_threshold # "other"
    /\ cfg.non_potential_receiver_node_value # "other"

\* C13: construction fails with a configuration error, before settings are
\* compiled or any row is filtered or padded, when the label column is absent
\* and prediction mode is off, and when the graph-id column is absent in any
\* mode; in prediction mode an absent label column is not an error.
C13_MissingColumnsRejected ==
    (cpc # "new") =>
        /\ (((~cfg.has_label_col /\ ~cfg.prediction) \/ ~cfg.has_graph_id_col) =>
              /\ cpc = "config_error"
              /\ settings = NoSettings
              /\ dataset = data
              /\ dropped_frames = 0)
        /\ ((OtherSettingsValid /\ ~cfg.has_label_col /\ ~cfg.prediction) =>
              cerror = "label_col_missing")
        /\ ((OtherSettingsValid /\ ~cfg.has_graph_id_col
                /\ (cfg.has_label_col \/ cfg.prediction)) =>
              cerror = "graph_id_col_missing")
        /\ ((OtherSettingsValid /\ cfg.prediction /\ ~cfg.has_label_col
                /\ cfg.has_graph_id_col) =>
              cpc # "config_error")

\* C13 witness: a construction that failed on the absent label column with
\* prediction mode off, rows that the filter would have changed untouched.
C13_Witness ==
    /\ cpc = "config_error" /\ cerror = "label_col_missing"
    /\ ~cfg.prediction /\ ~cfg.has_label_col /\ cfg.has_graph_id_col
    /\ settings = NoSettings
    /\ dataset = data /\ ApplyFilters(data, ApplySettings(cfg)) # data

\* the frame handed to _apply_padding: the filtered rows
PaddingDf == ApplyFilters(data, settings)

GroupKeysOf(df) == { GroupKey(df[k]) : k \in 1..Len(df) }

RowsInGroup(df, key) == Cardinality({ k \in 1..Len(df) : GroupKey(df[k]) = key })

\* C14: for every (game, period, frame, team, owning-team) group with count
\* rows and target t (1 for the ball group, 11 otherwise) padding appends
\* exactly max(0, t - count) synthetic rows to that group; a synthetic row has
\* its numeric motion columns equal to 0 and its context columns, label and
\* graph id copied from an existing row of the group; no original row is
\* modified or removed by the padding step itself.
C14_PaddingAddsMissingRows ==
    (cpc = "constructed" /\ cfg.pad) =>
        LET df == PaddingDf
            res == padding_result
        IN  /\ Len(res) >= Len(df)
            /\ SubSeq(res, 1, Len(df)) = df
            /\ GroupKeysOf(res) = GroupKeysOf(df)
            /\ \A key \in GroupKeysOf(df) :
                  LET t == IF key[4] = "ball" THEN 1 ELSE 11
                      count == RowsInGroup(df, key)
                  IN  RowsInGroup(res, key) - count
                        = IF t > count THEN t - count ELSE 0
            /\ \A k \in (Len(df) + 1)..Len(res) :
                  /\ res[k].x = 0 /\ res[k].v = 0 /\ res[k].a = 0
                  /\ \E j \in 1..Len(df) :
                        /\ GroupKey(df[j]) = GroupKey(res[k])
                        /\ df[j].position_name = res[k].position_name
                        /\ df[j].label = res[k].label
                        /\ df[j].graph_id = res[k].graph_id

\* C14 witness: a team of 9 rows got 2 synthetic rows, a group above its
\* target got none, and the frame was dropped afterwards by the completeness
\* check, not by the padding step.
C14_Witness ==
    /\ cpc = "constructed" /\ cfg.pad
    /\ \E key \in GroupKeysOf(PaddingDf) :
          /\ RowsInGroup(PaddingDf, key) = 9
          /\ RowsInGroup(padding_result, key) = 11
    /\ \E key \in GroupKeysOf(PaddingDf) :
          /\ RowsInGroup(PaddingDf, key) = 12
          /\ RowsInGroup(padding_result, key) = 12
    /\ \E k \in 1..Len(PaddingDf) : PaddingDf[k].x # 0
    /\ Len(dataset) < Len(padding_result)

\* the graphs of the graph ids at positions lo..hi of the shuffled list, one
\* whole graph id after the other
RECURSIVE GraphsOfIds(_, _)
GraphsOfIds(lo, hi) ==
    IF lo > hi THEN << >>
    ELSE SortedList({ k \in 1..Len(graphs) :
                        graphs[k] = unique_graph_ids_list[lo] })
            \o GraphsOfIds(lo + 1, hi)

\* C15: in graph-id partitioning validation is filled first, then test, each
\* by taking whole graph ids one at a time in the shuffled order until the
\* subset's graph count reaches or exceeds its target (num_validation, then
\* num_test); train receives exactly the graphs of the graph ids not taken;
\* on return |validation| >= num_validation, |test| >= num_test and
\* |train| = n - |validation| - |test|.
C15_ValidationThenTestThenTrain ==
    (Returned /\ by_graph_id) =>
        LET n == Len(graphs) IN
        /\ num_train = Floor(call.split_train, n)
        /\ IF call.split_validation > 0
           THEN /\ num_test = Floor(call.split_test, n)
                /\ num_validation = n - num_train - num_test
           ELSE /\ num_test = n - num_train
                /\ num_validation = 0
        /\ \E nv \in 0..i :
              /\ validation_idxs = GraphsOfIds(1, nv)
              /\ test_idxs = GraphsOfIds(nv + 1, i)
              /\ (nv > 0 => Len(GraphsOfIds(1, nv - 1)) < num_validation)
              /\ (i > nv => Len(GraphsOfIds(nv + 1, i - 1)) < num_test)
              /\ (nv = 0) = (num_validation = 0)
        /\ train_idxs =
              SortedList({ k \in 1..n :
                  \A j \in 1..i : graphs[k] # unique_graph_ids_list[j] })
        /\ Len(validation_idxs) >= num_validation
        /\ Len(test_idxs) >= num_test
        /\ Len(train_idxs) = n - Len(validation_idxs) - Len(test_idxs)

\* C15 witness: a returned 3-way graph-id split whose shuffled order is not
\* the sorted one, validation filled by the first graph id and test by the
\* second, which holds more graphs than the test target.
C15_Witness ==
    /\ Returned /\ by_graph_id /\ outcome = "returned3"
    /\ Len(unique_graph_ids_list) >= 2
    /\ unique_graph_ids_list[1] > unique_graph_ids_list[2]
    /\ validation_idxs # << >>
    /\ Len(test_idxs) > num_test /\ num_test > 0

\* C16: graph-id partitioning always completes: for every non-empty
\* collection in which every graph carries a graph id, every distribution of
\* graphs over graph ids and every proportions with train >= test >=
\* validation, the fill loops stop without running past the end of the list
\* of graph ids and the call returns 2 or 3 subsets rather than raising.
C16_ByIdAlwaysReturns ==
    (Finished /\ call.by_graph_id /\ EveryGraphHasId /\ graphs # << >>
        /\ ~BadOrder(call)) =>
        /\ Returned
        /\ outcome \in {"returned2", "returned3"}
        /\ i <= Len(unique_graph_ids_list)

\* C16, what the code does instead: such a call either returns or, when a
\* loop asks for a graph id after the last one was taken, ends in IndexError
\* with every graph id already handed out.
C16_RaisesOnlyPastTheEnd ==
    (Finished /\ call.by_graph_id /\ EveryGraphHasId /\ graphs # << >>
        /\ ~BadOrder(call) /\ ~Returned) =>
        /\ outcome = "IndexError"
        /\ i = Len(unique_graph_ids_list)
        /\ unique_graph_ids = {}
        /\ Len(validation_idxs) + Len(test_idxs) = Len(graphs)
        /\ (Len(validation_idxs) < num_validation \/ Len(test_idxs) < num_test)

====
